---- MODULE Spec2Model ----
(***************************************************************************)
(* hybrid-queue: a SQLite-backed job queue (Queue) and its polling         *)
(* consumer (Worker).  The jobs table is shared by every process that      *)
(* opens the database file; each Worker lives in its own process.          *)
(***************************************************************************)
EXTENDS Integers, Sequences, FiniteSets, Bags, TLC

(* ---- bounds of the model ---- *)
MaxJobs == 2          \* rows ever inserted
MaxTime == 1          \* last value of the wall clock (seconds)
MaxInvoked == 4       \* handler invocations of one job
MaxLimit == 2
MaxHours == 2       \* largest olderThanHours passed to cleanupOldJobs
MaxBatch == 2       \* largest batchSize passed to cleanupOldJobs
MaxCount == 3       \* largest totalCleaned a cleanupOldJobs call counts up to         \* largest LIMIT passed to getWaitingJobs

(* ---- program constants ---- *)
MAX_ATTEMPTS == 3

QueueNames == {"A", "B"}
Workers == {"w1", "w2"}
WorkerQueue == [w \in Workers |-> "A"]
JobStatus == {"waiting", "processing", "completed", "failed"}
JobIds == 1..MaxJobs

NoStatus == "any"                      \* getJobs called without a status
DefaultListLimit == 100
HoursPerDay == 24                \* default limit of getJobs
NoAttempts == -1                       \* updateJobStatus called without attempts
NoJob == [id |-> 0, attempts |-> 0]    \* no job selected
NoOp == [op |-> "none"]
NoCall == [pc |-> "idle"]              \* no cleanupOldJobs call in progress
NoPrevious == -1                       \* no purge to repeat
NoService == [pc |-> "none"]           \* no CleanupService constructed
NoRun == [pc |-> "none"]               \* no performCleanup in progress
Null == {}                             \* lastCleanupStats before the first run
NoRequest == {"none"}                  \* a run that serves no HTTP request
RetentionCompletedHours == 0           \* options.retentionCompletedHours
RetentionFailedHours == 1              \* options.retentionFailedHours
NoStats == [totalJobsCleaned |-> 0, completedJobsCleaned |-> 0,
            failedJobsCleaned |-> 0, queuesCleaned |-> {}]

VARIABLES
  jobs,         \* the jobs table: id -> row
  seq,          \* sqlite_sequence of the jobs table (largest id ever assigned)
  now,          \* wall clock, in seconds
  alive,        \* alive[w]: the process of Worker w exists
  isRunning,    \* Worker.isRunning
  pollInterval, \* Worker.pollInterval is armed
  dbClosed,     \* the Worker's database handle was closed
  selected,     \* the job a poll tick read and has not marked yet
  inflight,     \* bag of job snapshots whose handler is running
  last,         \* what the last step did: the Queue call and the value it
                \* returned, or the handler event of a Worker
  invoked,      \* history: handler invocations per job id
  resolved,     \* history: ids of the jobs whose handler has resolved
  cl,           \* the cleanupOldJobs call in progress, if any
  svc           \* the CleanupService of the process, once constructed

vars == <<jobs, seq, now, alive, isRunning, pollInterval, dbClosed, selected,
          inflight, last, invoked, resolved, cl, svc>>

workerVars == <<alive, isRunning, pollInterval, dbClosed, selected, inflight>>
histVars == <<invoked, resolved>>
cleanupVars == <<cl, svc>>

(* ---- the jobs table ---- *)

Row(q, t) == [queue_name |-> q, status |-> "waiting", attempts |-> 0, created_at |-> t]

ToJob(js, id) ==
  [id |-> id, queue_name |-> js[id].queue_name, status |-> js[id].status,
   attempts |-> js[id].attempts, created_at |-> js[id].created_at]

\* rows of queue q with the given status
RowsOf(js, q, st) == {id \in DOMAIN js : js[id].queue_name = q /\ js[id].status = st}

\* ORDER BY created_at ASC LIMIT n over the ids in S: every order the
\* engine may produce (rows with equal created_at come in any order)
RECURSIVE OrderAsc(_, _, _)
OrderAsc(js, S, n) ==
  IF n = 0 \/ S = {} THEN {<<>>}
  ELSE UNION {{<<m>> \o r : r \in OrderAsc(js, S \ {m}, n - 1)} :
              m \in {i \in S : \A k \in S : js[i].created_at <= js[k].created_at}}

RECURSIVE OrderDesc(_, _, _)
OrderDesc(js, S, n) ==
  IF n = 0 \/ S = {} THEN {<<>>}
  ELSE UNION {{<<m>> \o r : r \in OrderDesc(js, S \ {m}, n - 1)} :
              m \in {i \in S : \A k \in S : js[i].created_at >= js[k].created_at}}

\* variant: ORDER BY created_at DESC
GetWaitingJobsNewestFirst(js, q, limit) == OrderDesc(js, RowsOf(js, q, "waiting"), limit)

GetWaitingJobs(js, q, limit) == OrderAsc(js, RowsOf(js, q, "waiting"), limit)

\* variant: an INSERT OR REPLACE in place of the UPDATE
UpdateJobStatusUpsert(js, id, st, att) ==
  IF id \in DOMAIN js
  THEN [js EXCEPT ![id] = [@ EXCEPT !.status = st,
                                    !.attempts = IF att = NoAttempts THEN @ ELSE att]]
  ELSE (id :> [queue_name |-> "A", status |-> st,
               attempts |-> IF att = NoAttempts THEN 0 ELSE att,
               created_at |-> 0]) @@ js

\* variant: the UPDATE has no WHERE id = ? condition
UpdateJobStatusAllRows(js, id, st, att) ==
  [i \in DOMAIN js |-> [js[i] EXCEPT !.status = st,
                                     !.attempts = IF att = NoAttempts THEN @ ELSE att]]

UpdateJobStatus(js, id, st, att) ==
  IF id \in DOMAIN js
  THEN [js EXCEPT ![id] = [@ EXCEPT !.status = st,
                                    !.attempts = IF att = NoAttempts THEN @ ELSE att]]
  ELSE js

\* variant: the DELETE matches no row
DeleteJobNoRow(js, id) == js

DeleteJob(js, id) == [i \in DOMAIN js \ {id} |-> js[i]]

GetStats(js, q) == [st \in JobStatus |-> Cardinality(RowsOf(js, q, st))]

\* getJobs(status?, limit): the status filter is optional
GetJobs(js, q, st, limit) ==
  OrderDesc(js, IF st = NoStatus THEN {id \in DOMAIN js : js[id].queue_name = q}
                ELSE RowsOf(js, q, st), limit)

(* ---- Worker ---- *)

\* variant: newAttempts > MAX_ATTEMPTS
HandleJobFailureLate(js, job) ==
  IF job.attempts + 1 > MAX_ATTEMPTS
  THEN UpdateJobStatus(js, job.id, "failed", job.attempts + 1)
  ELSE UpdateJobStatus(js, job.id, "waiting", job.attempts + 1)

\* variant: the attempts argument is left out of updateJobStatus
HandleJobFailureNoCount(js, job) ==
  IF job.attempts + 1 >= MAX_ATTEMPTS
  THEN UpdateJobStatus(js, job.id, "failed", NoAttempts)
  ELSE UpdateJobStatus(js, job.id, "waiting", NoAttempts)

HandleJobFailure(js, job) ==
  IF job.attempts + 1 >= MAX_ATTEMPTS
  THEN UpdateJobStatus(js, job.id, "failed", job.attempts + 1)
  ELSE UpdateJobStatus(js, job.id, "waiting", job.attempts + 1)

TypeOK ==
  /\ DOMAIN jobs \subseteq 1..seq
  /\ seq \in 0..MaxJobs
  /\ now \in 0..MaxTime
  /\ \A id \in DOMAIN jobs :
       /\ jobs[id].queue_name \in QueueNames
       /\ jobs[id].status \in JobStatus
       /\ jobs[id].attempts \in 0..MAX_ATTEMPTS
       /\ jobs[id].created_at \in 0..MaxTime
  /\ alive \in [Workers -> BOOLEAN]
  /\ isRunning \in [Workers -> BOOLEAN]
  /\ pollInterval \in [Workers -> BOOLEAN]
  /\ dbClosed \in [Workers -> BOOLEAN]
  /\ \A w \in Workers : IsABag(inflight[w])
  /\ invoked \in [JobIds -> 0..MaxInvoked]
  /\ resolved \subseteq JobIds

Init ==
  /\ jobs = <<>>
  /\ seq = 0
  /\ now = 0
  /\ alive = [w \in Workers |-> w = "w1"]
  /\ isRunning = [w \in Workers |-> w = "w1"]
  /\ pollInterval = [w \in Workers |-> w = "w1"]
  /\ dbClosed = [w \in Workers |-> FALSE]
  /\ selected = [w \in Workers |-> NoJob]
  /\ inflight = [w \in Workers |-> EmptyBag]
  /\ last = NoOp
  /\ invoked = [id \in JobIds |-> 0]
  /\ resolved = {}
  /\ cl = NoCall
  /\ svc = NoService

\* largest id in the table, 0 when it is empty
MaxRowid(js) == IF DOMAIN js = {} THEN 0 ELSE CHOOSE m \in DOMAIN js : \A i \in DOMAIN js : i <= m

\* variant: INTEGER PRIMARY KEY without AUTOINCREMENT (largest rowid + 1)
AddReusingIds(q) ==
  /\ seq < MaxJobs
  /\ jobs' = (MaxRowid(jobs) + 1 :> Row(q, now)) @@ jobs
  /\ seq' = seq + 1
  /\ last' = [op |-> "add", queue |-> q, val |-> ToJob(jobs', MaxRowid(jobs) + 1)]
  /\ UNCHANGED <<cleanupVars, now, workerVars, histVars>>

\* Queue.add on a Queue handle of queue q
Add(q) ==
  /\ seq < MaxJobs
  /\ jobs' = (seq + 1 :> Row(q, now)) @@ jobs
  /\ seq' = seq + 1
  /\ last' = [op |-> "add", queue |-> q, val |-> ToJob(jobs', seq + 1)]
  /\ UNCHANGED <<cleanupVars, now, workerVars, histVars>>

\* one second passes
Tick ==
  /\ now < MaxTime
  /\ now' = now + 1
  /\ last' = NoOp
  /\ UNCHANGED <<cleanupVars, jobs, seq, workerVars, histVars>>

\* new Worker(queueName, handler) in a fresh process: constructor and start()
WorkerConstruct(w) ==
  /\ ~alive[w]
  /\ alive' = [alive EXCEPT ![w] = TRUE]
  /\ isRunning' = [isRunning EXCEPT ![w] = TRUE]
  /\ pollInterval' = [pollInterval EXCEPT ![w] = TRUE]
  /\ dbClosed' = [dbClosed EXCEPT ![w] = FALSE]
  /\ last' = NoOp
  /\ UNCHANGED <<cleanupVars, jobs, seq, now, selected, inflight, histVars>>

\* variant: the select marks the job processing in the same statement
WorkerSelectClaims(w) ==
  /\ alive[w] /\ pollInterval[w] /\ ~dbClosed[w]
  /\ selected[w] = NoJob
  /\ \E r \in GetWaitingJobs(jobs, WorkerQueue[w], 1) :
       /\ Len(r) > 0
       /\ invoked[r[1]] + Cardinality({v \in Workers : selected[v].id = r[1]}) < MaxInvoked
       /\ selected' = [selected EXCEPT ![w] = [id |-> r[1], attempts |-> jobs[r[1]].attempts]]
       /\ jobs' = UpdateJobStatus(jobs, r[1], "processing", NoAttempts)
  /\ last' = NoOp
  /\ UNCHANGED <<cleanupVars, seq, now, alive, isRunning, pollInterval, dbClosed,
                 inflight, histVars>>

\* poll tick, first statement of processJobs: getWaitingJobs(1)
WorkerSelect(w) ==
  /\ alive[w] /\ pollInterval[w] /\ ~dbClosed[w]
  /\ selected[w] = NoJob
  /\ \E r \in GetWaitingJobs(jobs, WorkerQueue[w], 1) :
       /\ Len(r) > 0
       /\ invoked[r[1]] + Cardinality({v \in Workers : selected[v].id = r[1]}) < MaxInvoked
       /\ selected' = [selected EXCEPT ![w] = [id |-> r[1], attempts |-> jobs[r[1]].attempts]]
  /\ last' = NoOp
  /\ UNCHANGED <<cleanupVars, jobs, seq, now, alive, isRunning, pollInterval, dbClosed,
                 inflight, histVars>>

\* processJob up to the await: mark the job processing and call the handler
WorkerMark(w) ==
  /\ alive[w]
  /\ selected[w] # NoJob
  /\ jobs' = UpdateJobStatus(jobs, selected[w].id, "processing", NoAttempts)
  /\ inflight' = [inflight EXCEPT ![w] = @ (+) SetToBag({selected[w]})]
  /\ invoked' = [invoked EXCEPT ![selected[w].id] = @ + 1]
  /\ selected' = [selected EXCEPT ![w] = NoJob]
  /\ last' = [op |-> "invoke", w |-> w, job |-> selected[w]]
  /\ UNCHANGED <<cleanupVars, seq, now, alive, isRunning, pollInterval, dbClosed, resolved>>

\* variant: the job is kept as completed instead of being deleted
HandlerResolvesKeep(w, job) ==
  /\ alive[w]
  /\ selected[w] = NoJob
  /\ BagIn(job, inflight[w])
  /\ jobs' = IF dbClosed[w] THEN jobs ELSE UpdateJobStatus(jobs, job.id, "completed", NoAttempts)
  /\ inflight' = [inflight EXCEPT ![w] = @ (-) SetToBag({job})]
  /\ resolved' = resolved \cup {job.id}
  /\ last' = [op |-> "resolves", w |-> w, job |-> job]
  /\ UNCHANGED <<cleanupVars, seq, now, alive, isRunning, pollInterval, dbClosed, selected,
                 invoked>>

\* the handler resolves: deleteJob (on a closed handle the statement throws,
\* handleJobFailure throws as well and the poll loop logs the error)
HandlerResolves(w, job) ==
  /\ alive[w]
  /\ selected[w] = NoJob
  /\ BagIn(job, inflight[w])
  /\ jobs' = IF dbClosed[w] THEN jobs ELSE DeleteJob(jobs, job.id)
  /\ inflight' = [inflight EXCEPT ![w] = @ (-) SetToBag({job})]
  /\ resolved' = resolved \cup {job.id}
  /\ last' = [op |-> "resolves", w |-> w, job |-> job]
  /\ UNCHANGED <<cleanupVars, seq, now, alive, isRunning, pollInterval, dbClosed, selected,
                 invoked>>

\* variant: the catch of processJob only logs the failure
HandlerRejectsForgets(w, job) ==
  /\ alive[w]
  /\ selected[w] = NoJob
  /\ BagIn(job, inflight[w])
  /\ jobs' = jobs
  /\ inflight' = [inflight EXCEPT ![w] = @ (-) SetToBag({job})]
  /\ last' = [op |-> "rejects", w |-> w, job |-> job]
  /\ UNCHANGED <<cleanupVars, seq, now, alive, isRunning, pollInterval, dbClosed, selected,
                 histVars>>

\* variant: the failure stops the Worker as stop() does
HandlerRejectsStops(w, job) ==
  /\ alive[w]
  /\ selected[w] = NoJob
  /\ BagIn(job, inflight[w])
  /\ jobs' = IF dbClosed[w] THEN jobs ELSE HandleJobFailure(jobs, job)
  /\ inflight' = [inflight EXCEPT ![w] = @ (-) SetToBag({job})]
  /\ isRunning' = [isRunning EXCEPT ![w] = FALSE]
  /\ pollInterval' = [pollInterval EXCEPT ![w] = FALSE]
  /\ last' = [op |-> "rejects", w |-> w, job |-> job]
  /\ UNCHANGED <<cleanupVars, seq, now, alive, dbClosed, selected, histVars>>

\* the handler throws or rejects: handleJobFailure
HandlerRejects(w, job) ==
  /\ alive[w]
  /\ selected[w] = NoJob
  /\ BagIn(job, inflight[w])
  /\ jobs' = IF dbClosed[w] THEN jobs ELSE HandleJobFailure(jobs, job)
  /\ inflight' = [inflight EXCEPT ![w] = @ (-) SetToBag({job})]
  /\ last' = [op |-> "rejects", w |-> w, job |-> job]
  /\ UNCHANGED <<cleanupVars, seq, now, alive, isRunning, pollInterval, dbClosed, selected,
                 histVars>>

\* variant: the poll timer is left armed
StopKeepsTimer(w) ==
  /\ alive[w]
  /\ selected[w] = NoJob
  /\ isRunning' = [isRunning EXCEPT ![w] = FALSE]
  /\ pollInterval' = pollInterval
  /\ last' = [op |-> "stop", w |-> w]
  /\ UNCHANGED <<cleanupVars, jobs, seq, now, alive, dbClosed, selected, inflight, histVars>>

\* Worker.stop: returns at once when the Worker is not running
Stop(w) ==
  /\ alive[w]
  /\ selected[w] = NoJob
  /\ isRunning' = [isRunning EXCEPT ![w] = FALSE]
  /\ pollInterval' = [pollInterval EXCEPT ![w] = FALSE]
  /\ last' = [op |-> "stop", w |-> w]
  /\ UNCHANGED <<cleanupVars, jobs, seq, now, alive, dbClosed, selected, inflight, histVars>>

\* Worker.close: stop() and queue.close()
Close(w) ==
  /\ alive[w]
  /\ selected[w] = NoJob
  /\ ~dbClosed[w]
  /\ isRunning' = [isRunning EXCEPT ![w] = FALSE]
  /\ pollInterval' = [pollInterval EXCEPT ![w] = FALSE]
  /\ dbClosed' = [dbClosed EXCEPT ![w] = TRUE]
  /\ last' = [op |-> "close", w |-> w]
  /\ UNCHANGED <<cleanupVars, jobs, seq, now, alive, selected, inflight, histVars>>

\* the process of Worker w dies (crash, kill or exit)
Crash(w) ==
  /\ alive[w]
  /\ alive' = [alive EXCEPT ![w] = FALSE]
  /\ isRunning' = [isRunning EXCEPT ![w] = FALSE]
  /\ pollInterval' = [pollInterval EXCEPT ![w] = FALSE]
  /\ dbClosed' = [dbClosed EXCEPT ![w] = FALSE]
  /\ selected' = [selected EXCEPT ![w] = NoJob]
  /\ inflight' = [inflight EXCEPT ![w] = EmptyBag]
  /\ last' = NoOp
  /\ UNCHANGED <<cleanupVars, jobs, seq, now, histVars>>

(* ---- calls on a Queue handle of queue q by an operator, tool or test ---- *)

\* Queue.updateJobStatus called directly: stmt.run raises nothing when the
\* UPDATE matches no row, and the method returns void
UpdateJobStatusCall(id, st, att) ==
  /\ jobs' = UpdateJobStatus(jobs, id, st, att)
  /\ last' = [op |-> "updateJobStatus", id |-> id, threw |-> FALSE]
  /\ UNCHANGED <<cleanupVars, seq, now, workerVars, histVars>>

\* variant: the UPDATE has no queue_name condition
RecoverOrphanedJobsEverywhere(q) ==
  /\ jobs' = [id \in DOMAIN jobs |->
               IF jobs[id].status = "processing"
               THEN [jobs[id] EXCEPT !.status = "waiting"] ELSE jobs[id]]
  /\ last' = [op |-> "recoverOrphanedJobs", queue |-> q,
              val |-> Cardinality({id \in DOMAIN jobs : jobs[id].status = "processing"})]
  /\ UNCHANGED <<cleanupVars, seq, now, workerVars, histVars>>

\* Queue.recoverOrphanedJobs
RecoverOrphanedJobs(q) ==
  /\ jobs' = [id \in DOMAIN jobs |->
               IF jobs[id].queue_name = q /\ jobs[id].status = "processing"
               THEN [jobs[id] EXCEPT !.status = "waiting"] ELSE jobs[id]]
  /\ last' = [op |-> "recoverOrphanedJobs", queue |-> q,
              val |-> Cardinality(RowsOf(jobs, q, "processing"))]
  /\ UNCHANGED <<cleanupVars, seq, now, workerVars, histVars>>

\* variant: attempts is not reset
RetryJobKeepAttempts(q, id) ==
  /\ IF id \in DOMAIN jobs /\ jobs[id].queue_name = q
     THEN /\ jobs' = [jobs EXCEPT ![id] = [@ EXCEPT !.status = "waiting"]]
          /\ last' = [op |-> "retryJob", queue |-> q, id |-> id, val |-> TRUE]
     ELSE /\ jobs' = jobs
          /\ last' = [op |-> "retryJob", queue |-> q, id |-> id, val |-> FALSE]
  /\ UNCHANGED <<cleanupVars, seq, now, workerVars, histVars>>

\* Queue.retryJob
RetryJob(q, id) ==
  /\ IF id \in DOMAIN jobs /\ jobs[id].queue_name = q
     THEN /\ jobs' = [jobs EXCEPT ![id] = [@ EXCEPT !.status = "waiting", !.attempts = 0]]
          /\ last' = [op |-> "retryJob", queue |-> q, id |-> id, val |-> TRUE]
     ELSE /\ jobs' = jobs
          /\ last' = [op |-> "retryJob", queue |-> q, id |-> id, val |-> FALSE]
  /\ UNCHANGED <<cleanupVars, seq, now, workerVars, histVars>>

\* variant: the SELECT has no queue_name condition
DeleteSpecificJobAnyQueue(q, id) ==
  /\ IF id \in DOMAIN jobs
     THEN /\ jobs' = DeleteJob(jobs, id)
          /\ last' = [op |-> "deleteSpecificJob", queue |-> q, id |-> id, val |-> TRUE]
     ELSE /\ jobs' = jobs
          /\ last' = [op |-> "deleteSpecificJob", queue |-> q, id |-> id, val |-> FALSE]
  /\ UNCHANGED <<cleanupVars, seq, now, workerVars, histVars>>

\* Queue.deleteSpecificJob
DeleteSpecificJob(q, id) ==
  /\ IF id \in DOMAIN jobs /\ jobs[id].queue_name = q
     THEN /\ jobs' = DeleteJob(jobs, id)
          /\ last' = [op |-> "deleteSpecificJob", queue |-> q, id |-> id, val |-> TRUE]
     ELSE /\ jobs' = jobs
          /\ last' = [op |-> "deleteSpecificJob", queue |-> q, id |-> id, val |-> FALSE]
  /\ UNCHANGED <<cleanupVars, seq, now, workerVars, histVars>>

(* ---- Queue.cleanupOldJobs ---- *)

Min(a, b) == IF a < b THEN a ELSE b

\* The text SQLite's datetime('now') stores in created_at for the hour t,
\* 'YYYY-MM-DD HH:MM:SS': the date, a space (code 32), the hour of the day.
SqliteDatetime(t) == <<t \div HoursPerDay, 32, t % HoursPerDay>>

\* The text Date.toISOString() gives for the hour t,
\* 'YYYY-MM-DDTHH:MM:SS.sssZ': the date, a 'T' (code 84), the hour of the day.
ToISOString(t) == <<t \div HoursPerDay, 84, t % HoursPerDay>>

\* SQLite's comparison of two TEXT values: the first differing position decides
TextLess(a, b) ==
  \E i \in 1..3 : a[i] < b[i] /\ \A j \in 1..(i - 1) : a[j] = b[j]

\* variant: the SELECT has no queue_name condition
MatchingRowsAnyQueue(js, c) ==
  {id \in DOMAIN js :
     /\ js[id].status = c.status
     /\ TextLess(SqliteDatetime(js[id].created_at), ToISOString(c.cutoff))}

\* the rows of SELECT id FROM jobs WHERE queue_name = ? AND status = ? AND
\* created_at < ?, the last parameter being cutoffTime.toISOString()
MatchingRows(js, c) ==
  {id \in DOMAIN js :
     /\ js[id].queue_name = c.queue
     /\ js[id].status = c.status
     /\ TextLess(SqliteDatetime(js[id].created_at), ToISOString(c.cutoff))}

\* the results LIMIT batchSize admits: no ORDER BY, so any batchSize of the rows
Batches(js, c) ==
  LET M == MatchingRows(js, c)
      n == Min(c.batchSize, Cardinality(M))
  IN {b \in SUBSET M : Cardinality(b) = n}

\* entry of cleanupOldJobs: cutoffTime, totalCleaned = 0, hasMore = true
\* matched and previous are history: the number of rows that match when the
\* call is made, and the count the call before returned when that call was a
\* real purge with the same queue, status and cutoff and nothing ran since
CleanupCall(caller, q, st, hours, bs, dry) ==
  [pc |-> "select", caller |-> caller, queue |-> q, status |-> st,
   cutoff |-> now - hours, batchSize |-> bs, dryRun |-> dry,
   total |-> 0, batch |-> {},
   matched |-> Cardinality(MatchingRows(jobs,
                 [queue |-> q, status |-> st, cutoff |-> now - hours])),
   previous |-> IF last.op = "cleanupOldJobs"
                THEN IF last.call = [queue |-> q, status |-> st,
                                     cutoff |-> now - hours, dryRun |-> FALSE]
                     THEN last.val ELSE NoPrevious
                ELSE NoPrevious]

\* a caller with a Queue handle calls cleanupOldJobs
CleanupOldJobs(q, st, hours, bs, dry) ==
  /\ cl.pc = "idle"
  /\ svc.pc # "running"
  /\ cl' = CleanupCall("call", q, st, hours, bs, dry)
  /\ last' = [op |-> "cleanupCall"]
  /\ UNCHANGED <<jobs, svc, seq, now, workerVars, histVars>>

\* top of the while loop: the SELECT, and the exit when it returns no row
CleanupSelect ==
  /\ cl.pc = "select"
  /\ \E b \in Batches(jobs, cl) :
       cl' = [cl EXCEPT !.pc = IF b = {} THEN "done" ELSE "delete", !.batch = b]
  /\ last' = [op |-> "cleanupSelect"]
  /\ UNCHANGED <<jobs, svc, seq, now, workerVars, histVars>>

\* variant: the loop ends after its first pass
CleanupDeleteOneBatch ==
  /\ cl.pc = "delete"
  /\ cl.total + Cardinality(cl.batch) <= MaxCount
  /\ jobs' = IF cl.dryRun THEN jobs
             ELSE [id \in DOMAIN jobs \ cl.batch |-> jobs[id]]
  /\ cl' = [cl EXCEPT !.pc = "done",
                       !.total = @ + Cardinality(cl.batch),
                       !.batch = {}]
  /\ last' = [op |-> "cleanupDelete"]
  /\ UNCHANGED <<svc, seq, now, workerVars, histVars>>

\* variant: the DELETE runs whatever dryRun is
CleanupDeleteAlways ==
  /\ cl.pc = "delete"
  /\ cl.total + Cardinality(cl.batch) <= MaxCount
  /\ jobs' = [id \in DOMAIN jobs \ cl.batch |-> jobs[id]]
  /\ cl' = [cl EXCEPT !.pc = IF Cardinality(cl.batch) < cl.batchSize
                                THEN "done" ELSE "select",
                       !.total = @ + Cardinality(cl.batch),
                       !.batch = {}]
  /\ last' = [op |-> "cleanupDelete"]
  /\ UNCHANGED <<svc, seq, now, workerVars, histVars>>

\* rest of the loop body: the DELETE unless dryRun, the count, the exit test
CleanupDelete ==
  /\ cl.pc = "delete"
  /\ cl.total + Cardinality(cl.batch) <= MaxCount
  /\ jobs' = IF cl.dryRun THEN jobs
             ELSE [id \in DOMAIN jobs \ cl.batch |-> jobs[id]]
  /\ cl' = [cl EXCEPT !.pc = IF Cardinality(cl.batch) < cl.batchSize
                                THEN "done" ELSE "select",
                       !.total = @ + Cardinality(cl.batch),
                       !.batch = {}]
  /\ last' = [op |-> "cleanupDelete"]
  /\ UNCHANGED <<svc, seq, now, workerVars, histVars>>

\* return totalCleaned to the caller
CleanupReturn ==
  /\ cl.pc = "done"
  /\ cl.caller = "call"
  /\ cl' = NoCall
  /\ last' = [op |-> "cleanupOldJobs", val |-> cl.total,
              call |-> [queue |-> cl.queue, status |-> cl.status,
                        cutoff |-> cl.cutoff, dryRun |-> cl.dryRun]]
  /\ UNCHANGED <<jobs, svc, seq, now, workerVars, histVars>>

(* ---- CleanupService ---- *)

\* An optional boolean argument is the empty set when it is omitted and the
\* singleton of its value when it is supplied.
Undefined == {}
Supplied(b) == {b}

\* Queue.getAllQueueNames: SELECT DISTINCT queue_name FROM jobs
GetAllQueueNames(js) == {js[id].queue_name : id \in DOMAIN js}

\* variant: a supplied false does not override a configured true
ActualDryRunEither(arg, configured) == (arg = Supplied(TRUE)) \/ configured

\* dryRun !== undefined ? dryRun : this.options.dryRun
ActualDryRun(arg, configured) ==
  IF arg # Undefined THEN (CHOOSE b \in arg : TRUE) ELSE configured

\* variant: no single-flight guard
CleanupIsRunningIgnored(s) == FALSE

\* if (this.isRunning) throw new Error('Cleanup is already running')
CleanupIsRunning(s) == s.isRunning

\* new CleanupService(options)
ServiceConstruct(dry) ==
  /\ svc.pc = "none"
  /\ svc' = [pc |-> "ready",
             options |-> [dryRun |-> dry, batchSize |-> MaxBatch,
                          retentionCompletedHours |-> RetentionCompletedHours,
                          retentionFailedHours |-> RetentionFailedHours],
             intervalId |-> FALSE, initialTimer |-> FALSE,
             isRunning |-> FALSE, lastCleanupStats |-> Null,
             active |-> 0, run |-> NoRun]
  /\ last' = NoOp
  /\ UNCHANGED <<jobs, cl, seq, now, workerVars, histVars>>

\* CleanupService.start: the recurring timer and the 5 s timer of the first run
ServiceStart ==
  /\ svc.pc = "ready"
  /\ svc' = IF svc.intervalId THEN svc
            ELSE [svc EXCEPT !.intervalId = TRUE, !.initialTimer = TRUE]
  /\ last' = NoOp
  /\ UNCHANGED <<jobs, cl, seq, now, workerVars, histVars>>

\* CleanupService.stop: clearInterval(this.intervalId); the timeout of the
\* first run has no handle and is left as it is
ServiceStop ==
  /\ svc.pc = "ready"
  /\ svc' = [svc EXCEPT !.intervalId = FALSE]
  /\ last' = [op |-> "stop"]
  /\ UNCHANGED <<jobs, cl, seq, now, workerVars, histVars>>

\* performCleanup(arg) up to the loop over the queues, for the service state
\* s: the guard, isRunning = true, actualDryRun and the scan of the queue
\* names; when the scan throws, the outer catch and the finally end the run.
\* History kept in the run: counted, the rows each queue's cleanupOldJobs
\* calls have counted so far, and request, the query of the HTTP request the
\* run serves.
PerformCleanup(s, kind, given, arg, scanThrows) ==
  LET flag == ActualDryRun(arg, s.options.dryRun) IN
  /\ UNCHANGED <<jobs, cl, seq, now, workerVars, histVars>>
  /\ IF CleanupIsRunning(s)
     THEN /\ svc' = s
          /\ last' = [op |-> "trigger", rejected |-> TRUE]
     ELSE IF scanThrows
     THEN /\ svc' = s
          /\ last' = [op |-> "cleanupResult", queueNames |-> {}, purged |-> {},
                      kind |-> kind, given |-> given,
                      result |-> [success |-> FALSE, dryRun |-> flag,
                                  errors |-> <<"Cleanup failed">>, stats |-> NoStats]]
     ELSE /\ svc' = [s EXCEPT !.isRunning = TRUE, !.active = @ + 1,
                              !.run = [pc |-> "loop", dryRun |-> flag,
                                       queueNames |-> GetAllQueueNames(jobs),
                                       todo |-> GetAllQueueNames(jobs),
                                       queueName |-> "none", completedCleaned |-> 0,
                                       errors |-> <<>>, purged |-> {},
                                       counted |-> [q \in QueueNames |-> 0],
                                       request |-> IF kind = "endpoint" THEN given
                                                   ELSE NoRequest,
                                       stats |-> NoStats]]
          /\ last' = [op |-> "trigger", kind |-> kind, given |-> given, rejected |-> FALSE]

\* the recurring timer fires
IntervalTrigger(scanThrows) ==
  /\ svc.pc = "ready"
  /\ svc.intervalId
  /\ PerformCleanup(svc, "interval", Undefined, Undefined, scanThrows)

\* the timer of the first run fires, 5 s after start
InitialTrigger(scanThrows) ==
  /\ svc.pc = "ready"
  /\ svc.initialTimer
  /\ PerformCleanup([svc EXCEPT !.initialTimer = FALSE], "initial",
                    Undefined, Undefined, scanThrows)

\* CleanupService.manualCleanup(dryRun?)
ManualCleanup(given, scanThrows) ==
  /\ svc.pc = "ready"
  /\ PerformCleanup(svc, "manual", given,
                    Supplied(ActualDryRun(given, svc.options.dryRun)), scanThrows)

\* POST /cleanup/trigger with the query parameter dryRun absent or a string:
\* const dryRun = query.dryRun === 'true', then manualCleanup(dryRun)
TriggerEndpoint(query, scanThrows) ==
  LET dryRun == (query = Supplied("true")) IN
  IF svc.pc = "none"
  THEN /\ last' = [op |-> "endpointError"]
       /\ UNCHANGED <<jobs, cl, svc, seq, now, workerVars, histVars>>
  ELSE PerformCleanup(svc, "endpoint", query,
                      Supplied(ActualDryRun(Supplied(dryRun), svc.options.dryRun)),
                      scanThrows)

\* for (const queueName of queueNames): new Queue(queueName) and the call of
\* cleanupOldJobs('completed', ...)
ServiceNextQueue ==
  /\ svc.pc = "ready" /\ svc.run.pc = "loop"
  /\ svc.run.queueName = "none"
  /\ \E q \in svc.run.todo :
       /\ svc' = [svc EXCEPT !.run.todo = @ \ {q}, !.run.queueName = q,
                             !.run.completedCleaned = 0]
       /\ cl' = CleanupCall("service", q, "completed",
                            svc.options.retentionCompletedHours,
                            svc.options.batchSize, svc.run.dryRun)
  /\ last' = NoOp
  /\ UNCHANGED <<jobs, seq, now, workerVars, histVars>>

\* a cleanupOldJobs call of the run returns: after 'completed' the call for
\* 'failed', after 'failed' queue.close() and the counts of the queue
ServiceCollect ==
  /\ svc.pc = "ready" /\ svc.run.pc = "loop"
  /\ cl.pc = "done" /\ cl.caller = "service"
  /\ IF cl.status = "completed"
     THEN /\ svc' = [svc EXCEPT !.run.completedCleaned = cl.total,
                                !.run.counted[cl.queue] = @ + cl.total,
                                !.run.purged = @ \cup {<<cl.queue, "completed">>}]
          /\ cl' = CleanupCall("service", cl.queue, "failed",
                               svc.options.retentionFailedHours,
                               svc.options.batchSize, svc.run.dryRun)
     ELSE LET completedCleaned == svc.run.completedCleaned
              failedCleaned == cl.total
              queueTotal == completedCleaned + failedCleaned
              st == svc.run.stats
          IN /\ svc' = [svc EXCEPT
                   !.run.queueName = "none",
                   !.run.completedCleaned = 0,
                   !.run.counted[cl.queue] = @ + cl.total,
                   !.run.purged = @ \cup {<<cl.queue, "failed">>},
                   !.run.stats =
                     IF queueTotal > 0
                     THEN [totalJobsCleaned |-> st.totalJobsCleaned + queueTotal,
                           completedJobsCleaned |-> st.completedJobsCleaned + completedCleaned,
                           failedJobsCleaned |-> st.failedJobsCleaned + failedCleaned,
                           queuesCleaned |-> st.queuesCleaned \cup {cl.queue}]
                     ELSE st]
             /\ cl' = NoCall
  /\ last' = NoOp
  /\ UNCHANGED <<jobs, seq, now, workerVars, histVars>>

\* variant: the failure of one queue ends the loop over the queues
ServiceQueueFailsAborts ==
  /\ svc.pc = "ready" /\ svc.run.pc = "loop"
  /\ cl.pc \in {"select", "delete"} /\ cl.caller = "service"
  /\ svc' = [svc EXCEPT !.run.queueName = "none", !.run.completedCleaned = 0,
                        !.run.todo = {},
                        !.run.counted[cl.queue] = @ + cl.total,
                        !.run.errors = Append(@, cl.queue)]
  /\ cl' = NoCall
  /\ last' = [op |-> "queueFails", queue |-> cl.queue]
  /\ UNCHANGED <<jobs, seq, now, workerVars, histVars>>

\* a statement of the queue's try block throws (new Queue, a SELECT or a
\* DELETE of cleanupOldJobs): the catch adds one message for the queue and
\* the loop goes on with the next queue
ServiceQueueFails ==
  /\ svc.pc = "ready" /\ svc.run.pc = "loop"
  /\ cl.pc \in {"select", "delete"} /\ cl.caller = "service"
  /\ svc' = [svc EXCEPT !.run.queueName = "none", !.run.completedCleaned = 0,
                        !.run.counted[cl.queue] = @ + cl.total,
                        !.run.errors = Append(@, cl.queue)]
  /\ cl' = NoCall
  /\ last' = [op |-> "queueFails", queue |-> cl.queue]
  /\ UNCHANGED <<jobs, seq, now, workerVars, histVars>>

\* variant: no finally, the flag stays as the run set it
ServiceRunEndsKeepsFlag ==
  /\ svc.pc = "ready" /\ svc.run.pc = "loop"
  /\ svc.run.queueName = "none" /\ svc.run.todo = {}
  /\ svc' = [svc EXCEPT !.lastCleanupStats = {svc.run.stats},
                        !.active = @ - 1, !.run = NoRun]
  /\ last' = [op |-> "cleanupResult", queueNames |-> svc.run.queueNames,
              purged |-> svc.run.purged,
              result |-> [success |-> TRUE, dryRun |-> svc.run.dryRun,
                          errors |-> svc.run.errors, stats |-> svc.run.stats]]
  /\ UNCHANGED <<jobs, cl, seq, now, workerVars, histVars>>

\* after the loop: the stats, this.lastCleanupStats = stats, the returned
\* result and the finally
ServiceRunEnds ==
  /\ svc.pc = "ready" /\ svc.run.pc = "loop"
  /\ svc.run.queueName = "none" /\ svc.run.todo = {}
  /\ svc' = [svc EXCEPT !.isRunning = FALSE, !.lastCleanupStats = {svc.run.stats},
                        !.active = @ - 1, !.run = NoRun]
  /\ last' = [op |-> "cleanupResult", queueNames |-> svc.run.queueNames,
              purged |-> svc.run.purged,
              result |-> [success |-> TRUE, dryRun |-> svc.run.dryRun,
                          errors |-> svc.run.errors, stats |-> svc.run.stats]]
  /\ UNCHANGED <<jobs, cl, seq, now, workerVars, histVars>>

(* ---- specifications ---- *)

\* one Worker that keeps running
NextRun ==
  \/ \E q \in QueueNames : Add(q)
  \/ Tick
  \/ WorkerSelect("w1")
  \/ WorkerMark("w1")
  \/ \E job \in BagToSet(inflight["w1"]) : HandlerResolves("w1", job)
  \/ \E job \in BagToSet(inflight["w1"]) : HandlerRejects("w1", job)

SpecRun == Init /\ [][NextRun]_vars

\* one Worker process that may stop, close, die and be started again
Next ==
  \/ NextRun
  \/ Stop("w1")
  \/ Close("w1")
  \/ Crash("w1")
  \/ WorkerConstruct("w1")

Spec == Init /\ [][Next]_vars

\* two Worker processes that keep running on the same queue
NextMulti ==
  \/ \E q \in QueueNames : Add(q)
  \/ Tick
  \/ \E w \in Workers : WorkerConstruct(w)
  \/ \E w \in Workers : WorkerSelect(w)
  \/ \E w \in Workers : WorkerMark(w)
  \/ \E w \in Workers : \E job \in BagToSet(inflight[w]) : HandlerResolves(w, job)
  \/ \E w \in Workers : \E job \in BagToSet(inflight[w]) : HandlerRejects(w, job)

SpecMulti == Init /\ [][NextMulti]_vars

\* one Worker process that may die and be started again; a new process is
\* eventually started, the poll timer keeps firing and handlers settle
NextFair ==
  \/ NextRun
  \/ Crash("w1")
  \/ WorkerConstruct("w1")

SpecFair ==
  /\ Init /\ [][NextFair]_vars
  /\ WF_vars(WorkerConstruct("w1"))
  /\ WF_vars(WorkerSelect("w1"))
  /\ WF_vars(WorkerMark("w1"))
  /\ WF_vars(\E job \in BagToSet(inflight["w1"]) :
               HandlerResolves("w1", job) \/ HandlerRejects("w1", job))

\* the handler invocations made so far on the jobs of S, and the jobs
\* selected by a poll tick that has not yet invoked the handler
RECURSIVE Invocations(_)
Invocations(S) ==
  IF S = {} THEN 0
  ELSE LET id == CHOOSE x \in S : TRUE IN invoked[id] + Invocations(S \ {id})

Selections == Cardinality({w \in Workers : selected[w] # NoJob})

\* two Worker processes on the same queue and the producers, for runs of at
\* most MaxInvoked handler invocations in all
NextPair ==
  \/ \E q \in QueueNames : Add(q)
  \/ \E w \in Workers : WorkerConstruct(w)
  \/ \E w \in Workers :
       Invocations(JobIds) + Selections < MaxInvoked /\ WorkerSelect(w)
  \/ \E w \in Workers : WorkerMark(w)
  \/ \E w \in Workers : \E job \in BagToSet(inflight[w]) : HandlerResolves(w, job)
  \/ \E w \in Workers : \E job \in BagToSet(inflight[w]) : HandlerRejects(w, job)

SpecPair == Init /\ [][NextPair]_vars

\* producers and direct calls on Queue handles, no Worker
NextAdmin ==
  \/ \E q \in QueueNames : Add(q)
  \/ Tick
  \/ \E id \in JobIds, st \in JobStatus, att \in {NoAttempts, MAX_ATTEMPTS - 1} :
       UpdateJobStatusCall(id, st, att)
  \/ \E q \in QueueNames : RecoverOrphanedJobs(q)
  \/ \E q \in QueueNames, id \in JobIds : RetryJob(q, id)
  \/ \E q \in QueueNames, id \in JobIds : DeleteSpecificJob(q, id)

SpecAdmin == Init /\ [][NextAdmin]_vars

\* One process with a Queue handle per queue: it adds jobs, sets statuses and
\* calls cleanupOldJobs. cleanupOldJobs is synchronous, so the process makes
\* no other call until the one in progress has returned.
NextCleanup ==
  \/ \E q \in QueueNames : cl.pc = "idle" /\ Add(q)
  \/ cl.pc = "idle" /\ Tick
  \/ \E id \in JobIds, st \in {"completed", "failed"} :
       cl.pc = "idle" /\ UpdateJobStatusCall(id, st, NoAttempts)
  \/ \E q \in QueueNames, st \in JobStatus, hours \in 0..MaxHours,
        bs \in 1..MaxBatch, dry \in BOOLEAN : CleanupOldJobs(q, st, hours, bs, dry)
  \/ CleanupSelect
  \/ CleanupDelete
  \/ CleanupReturn

SpecCleanup == Init /\ [][NextCleanup]_vars

\* A process that holds a CleanupService, adds jobs and sets statuses. A run
\* has no await, so in the build nothing else of the process runs between its
\* first and its last statement; the model keeps the adds and status updates
\* out of a run but lets the timers and manual triggers fire between any two
\* steps of it, which adds behaviours and takes none away. The clock stands
\* still: with the two retentions of the service the completed rows match
\* the cutoff and failed rows would not, so the process marks rows completed
\* only.
ServiceIdle == IF svc.pc = "none" THEN TRUE ELSE svc.run.pc = "none"

NextService ==
  \/ \E q \in QueueNames : ServiceIdle /\ Add(q)
  \/ \E id \in JobIds : ServiceIdle /\ UpdateJobStatusCall(id, "completed", NoAttempts)
  \/ \E dry \in BOOLEAN : ServiceConstruct(dry)
  \/ ServiceStart
  \/ \E scanThrows \in BOOLEAN : IntervalTrigger(scanThrows)
  \/ \E scanThrows \in BOOLEAN : InitialTrigger(scanThrows)
  \/ \E given \in {Undefined, Supplied(TRUE), Supplied(FALSE)}, scanThrows \in BOOLEAN :
       ManualCleanup(given, scanThrows)
  \/ ServiceNextQueue
  \/ CleanupSelect
  \/ CleanupDelete
  \/ ServiceCollect
  \/ ServiceQueueFails
  \/ ServiceRunEnds

SpecService == Init /\ [][NextService]_vars

\* Several processes on one store: producers, operators that set statuses,
\* retry and delete jobs, and a process that purges terminal jobs with
\* cleanupOldJobs; the statements of the purge interleave with the calls of
\* the other processes.
NextStore ==
  \/ \E q \in QueueNames : Add(q)
  \/ Tick
  \/ \E id \in JobIds, st \in {"completed", "failed"} :
       UpdateJobStatusCall(id, st, NoAttempts)
  \/ \E q \in QueueNames, id \in JobIds : RetryJob(q, id)
  \/ \E q \in QueueNames, id \in JobIds : DeleteSpecificJob(q, id)
  \/ \E q \in QueueNames, st \in {"completed", "failed"}, hours \in 0..MaxHours,
        bs \in 1..MaxBatch : CleanupOldJobs(q, st, hours, bs, FALSE)
  \/ CleanupSelect
  \/ CleanupDelete
  \/ CleanupReturn

SpecStore == Init /\ [][NextStore]_vars

(* ---- properties ---- *)

\* the last step was the given handler event of job id
Event(ev, op, id) == ev.op = op /\ ev.job.id = id

\* C1: with a single Worker and no operator retry or delete, every status
\* change of a job is waiting->processing, processing->waiting after a
\* failed execution that leaves attempts below MAX_ATTEMPTS,
\* processing->failed after a failed execution that brings attempts to
\* MAX_ATTEMPTS or more, or the removal of a processing job after a
\* successful execution; the handler is invoked only on a job whose stored
\* status is processing.
C1_StatusTransitions ==
  [][\A id \in JobIds :
       /\ (id \in DOMAIN jobs /\ id \in DOMAIN jobs' /\ jobs'[id].status # jobs[id].status) =>
            \/ /\ jobs[id].status = "waiting" /\ jobs'[id].status = "processing"
               /\ Event(last', "invoke", id)
            \/ /\ jobs[id].status = "processing" /\ jobs'[id].status = "waiting"
               /\ Event(last', "rejects", id)
               /\ jobs'[id].attempts < MAX_ATTEMPTS
            \/ /\ jobs[id].status = "processing" /\ jobs'[id].status = "failed"
               /\ Event(last', "rejects", id)
               /\ jobs'[id].attempts >= MAX_ATTEMPTS
       /\ (id \in DOMAIN jobs /\ id \notin DOMAIN jobs') =>
            jobs[id].status = "processing" /\ Event(last', "resolves", id)
       /\ (id \notin DOMAIN jobs /\ id \in DOMAIN jobs') =>
            jobs'[id].status = "waiting" /\ last'.op = "add"
       /\ Event(last', "invoke", id) =>
            id \in DOMAIN jobs' /\ jobs'[id].status = "processing"
    ]_vars

\* a job went waiting->processing->waiting and on to failed, another one was
\* removed after a successful execution
C1_Witness ==
  /\ \E id \in DOMAIN jobs : jobs[id].status = "failed" /\ invoked[id] = 3
  /\ \E id \in resolved : id \notin DOMAIN jobs

\* C2: for any number of Workers on the queue, the stored attempts of a job
\* never decreases and every failed handler execution of the job raises it
\* by exactly 1.
C2_AttemptsCountFailures ==
  [][\A id \in JobIds :
       (id \in DOMAIN jobs /\ id \in DOMAIN jobs') =>
          /\ jobs'[id].attempts >= jobs[id].attempts
          /\ Event(last', "rejects", id) => jobs'[id].attempts = jobs[id].attempts + 1
    ]_vars

\* C3: a Worker puts a job in failed only through a failed execution whose
\* resulting attempts value is MAX_ATTEMPTS or more, the failed row carries
\* that value, and a failed execution that brings attempts to MAX_ATTEMPTS
\* or more never leaves the job in waiting.
C3_FailedIffExhausted ==
  [][\A id \in JobIds :
       /\ (/\ id \in DOMAIN jobs'
           /\ jobs'[id].status = "failed"
           /\ (id \in DOMAIN jobs => jobs[id].status # "failed")) =>
            /\ Event(last', "rejects", id)
            /\ jobs'[id].attempts = last'.job.attempts + 1
            /\ jobs'[id].attempts >= MAX_ATTEMPTS
       /\ (/\ Event(last', "rejects", id)
           /\ last'.job.attempts + 1 >= MAX_ATTEMPTS
           /\ id \in DOMAIN jobs') =>
            /\ jobs'[id].status # "waiting"
            /\ ~dbClosed[last'.w] => jobs'[id].status = "failed"
    ]_vars

\* the third failed execution has just put a job in failed
C3_Witness ==
  \E id \in DOMAIN jobs :
    /\ Event(last, "rejects", id) /\ last.job.attempts = 2
    /\ jobs[id].status = "failed" /\ jobs[id].attempts = 3

\* executions of job id that Worker w has in flight
InFlight(w, id) == \E job \in BagToSet(inflight[w]) : job.id = id

\* C4: with one running Worker and a handler that fails on every execution
\* of a job, the handler is invoked on the job at most MAX_ATTEMPTS times
\* and exactly MAX_ATTEMPTS times once it is failed; the failed job has
\* attempts = MAX_ATTEMPTS, is listed and counted under failed for its
\* queue, is not claimed again and stays as it is.
C4_ExhaustedJobStaysFailed ==
  /\ [](\A id \in DOMAIN jobs :
         id \notin resolved =>
           /\ invoked[id] <= MAX_ATTEMPTS
           /\ invoked[id] = jobs[id].attempts + (IF jobs[id].status = "processing" THEN 1 ELSE 0)
           /\ jobs[id].status = "failed" =>
                /\ jobs[id].attempts = MAX_ATTEMPTS
                /\ invoked[id] = MAX_ATTEMPTS
                /\ selected["w1"].id # id /\ ~InFlight("w1", id)
                /\ GetStats(jobs, jobs[id].queue_name)["failed"] >= 1
                /\ \A r \in GetJobs(jobs, jobs[id].queue_name, "failed", DefaultListLimit) :
                     \E i \in 1..Len(r) : r[i] = id
                /\ \A r \in GetJobs(jobs, jobs[id].queue_name, NoStatus, DefaultListLimit) :
                     \E i \in 1..Len(r) : r[i] = id)
  /\ [][\A id \in DOMAIN jobs :
          jobs[id].status = "failed" =>
            /\ id \in DOMAIN jobs' /\ jobs'[id] = jobs[id]
            /\ invoked'[id] = invoked[id]
            /\ ~Event(last', "invoke", id)
      ]_vars

\* a job is failed after three invocations, and the Worker has gone on to
\* another job since
C4_Witness ==
  \E id \in DOMAIN jobs :
    /\ jobs[id].status = "failed" /\ jobs[id].attempts = 3 /\ invoked[id] = 3
    /\ \E other \in JobIds : other # id /\ Event(last, "invoke", other)

\* C5: with one running Worker, an execution starts on the stored attempts
\* value, which is the number of failed executions before it; when the
\* handler resolves after k < MAX_ATTEMPTS failures (k = 2) the job was
\* processing with attempts = k, never failed, and is removed by that step.
C5_SuccessAfterFailures ==
  [][\A id \in JobIds :
       /\ Event(last', "invoke", id) =>
            /\ id \in DOMAIN jobs /\ jobs[id].status = "waiting"
            /\ jobs[id].attempts = last'.job.attempts
            /\ jobs'[id].attempts = last'.job.attempts
            /\ invoked[id] = last'.job.attempts
            /\ last'.job.attempts < MAX_ATTEMPTS
       /\ Event(last', "resolves", id) =>
            /\ id \in DOMAIN jobs /\ jobs[id].status = "processing"
            /\ jobs[id].attempts = last'.job.attempts
            /\ invoked[id] = last'.job.attempts + 1
            /\ id \notin DOMAIN jobs'
       /\ (id \in DOMAIN jobs /\ jobs[id].status = "failed") => ~Event(last', "resolves", id)
    ]_vars

\* the third execution of a job has just resolved after two failures
C5_Witness ==
  \E id \in JobIds :
    /\ Event(last, "resolves", id) /\ last.job.attempts = 2
    /\ invoked[id] = 3 /\ id \notin DOMAIN jobs

\* C6: when a handler execution of a job resolves, the Worker removes the
\* job; from then on the job is in no listing or count and is never claimed
\* or executed again.
C6_ResolvedJobIsGone ==
  [][\A id \in JobIds :
       /\ Event(last', "resolves", id) => id \notin DOMAIN jobs'
       /\ id \in resolved =>
            /\ id \notin DOMAIN jobs'
            /\ ~Event(last', "invoke", id)
            /\ \A w \in Workers : selected[w].id = id \/ selected'[w].id # id
    ]_vars

C8_GetWaitingJobs ==
  /\ [](\A q \in QueueNames, limit \in 1..MaxLimit :
         LET W == {id \in DOMAIN jobs : jobs[id].queue_name = q /\ jobs[id].status = "waiting"}
             R == GetWaitingJobs(jobs, q, limit)
         IN /\ R # {}
            /\ \A r \in R :
                 /\ Len(r) = Min(limit, Cardinality(W))
                 /\ \A i \in 1..Len(r) : r[i] \in W
                 /\ \A i, j \in 1..Len(r) :
                      i < j => r[i] # r[j] /\ jobs[r[i]].created_at <= jobs[r[j]].created_at
                 /\ \A x \in W : (\A i \in 1..Len(r) : r[i] # x) =>
                      \A i \in 1..Len(r) : jobs[r[i]].created_at <= jobs[x].created_at)
  /\ [][\A w \in Workers :
          (selected[w] = NoJob /\ selected'[w] # NoJob) =>
             /\ jobs' = jobs
             /\ selected'[w].id \in DOMAIN jobs
             /\ jobs[selected'[w].id].status = "waiting"
             /\ jobs[selected'[w].id].queue_name = WorkerQueue[w]
             /\ selected'[w].attempts = jobs[selected'[w].id].attempts
      ]_vars

\* two jobs of different age are waiting in one queue while the other
\* queue has none, and a poll tick has just read the older one
C8_Witness ==
  /\ DOMAIN jobs = {1, 2}
  /\ jobs[1].queue_name = "A" /\ jobs[2].queue_name = "A"
  /\ jobs[1].status = "waiting" /\ jobs[2].status = "waiting"
  /\ jobs[1].created_at < jobs[2].created_at
  /\ selected["w1"].id = 1

\* C9: when a Worker is constructed, the jobs of its queue left in
\* processing by an earlier process are reset to waiting: right after the
\* construction the processing count of the queue is 0.
C9_RecoveryAtStart ==
  [][\A w \in Workers :
       (~alive[w] /\ alive'[w]) => GetStats(jobs', WorkerQueue[w])["processing"] = 0
    ]_vars

\* C10: a job that was processing when its process died is executed again
\* once a new Worker polls the queue: while that Worker lives, the handler
\* is eventually invoked on the job.
C10_OrphanIsReprocessed ==
  \A id \in JobIds :
    (/\ alive["w1"]
     /\ id \in DOMAIN jobs /\ jobs[id].status = "processing"
     /\ ~InFlight("w1", id))
      ~> (~alive["w1"] \/ Event(last, "invoke", id))

\* C11: recoverOrphanedJobs sets every processing row of its queue to
\* waiting in one step and returns the number of rows it changed; attempts,
\* rows in other statuses and rows of other queues stay as they are, and a
\* call that directly follows one on the same queue changes nothing and
\* returns 0.
C11_RecoverOrphanedJobs ==
  [][last'.op = "recoverOrphanedJobs" =>
       LET q == last'.queue
           P == {id \in DOMAIN jobs : jobs[id].queue_name = q /\ jobs[id].status = "processing"}
       IN /\ DOMAIN jobs' = DOMAIN jobs
          /\ \A id \in P : jobs'[id] = [queue_name |-> q, status |-> "waiting",
                                        attempts |-> jobs[id].attempts,
                                        created_at |-> jobs[id].created_at]
          /\ \A id \in DOMAIN jobs \ P : jobs'[id] = jobs[id]
          /\ last'.val = Cardinality(P)
          /\ GetStats(jobs', q)["processing"] = 0
          /\ (last.op = "recoverOrphanedJobs" /\ last.queue = q) =>
               last'.val = 0 /\ jobs' = jobs
    ]_vars

\* a call has reset one row that carries attempts, and a processing row of
\* the other queue is still processing
C11_Witness ==
  /\ last.op = "recoverOrphanedJobs" /\ last.val = 1
  /\ \E id \in DOMAIN jobs :
       jobs[id].queue_name = last.queue /\ jobs[id].status = "waiting" /\ jobs[id].attempts > 0
  /\ \E id \in DOMAIN jobs :
       jobs[id].queue_name # last.queue /\ jobs[id].status = "processing"

\* C20: retryJob(id) on a job of the queue returns true and leaves the job
\* waiting with attempts 0 and its queue and created_at as they were; no
\* other row changes, and getWaitingJobs of the queue returns the job.
C20_RetryJob ==
  [][(last'.op = "retryJob" /\ last'.id \in DOMAIN jobs
        /\ jobs[last'.id].queue_name = last'.queue) =>
       LET id == last'.id IN
         /\ last'.val = TRUE
         /\ DOMAIN jobs' = DOMAIN jobs
         /\ jobs'[id] = [queue_name |-> jobs[id].queue_name, status |-> "waiting",
                         attempts |-> 0, created_at |-> jobs[id].created_at]
         /\ \A i \in DOMAIN jobs \ {id} : jobs'[i] = jobs[i]
         /\ \A r \in GetWaitingJobs(jobs', last'.queue, MaxJobs) :
              \E i \in 1..Len(r) : r[i] = id
    ]_vars

\* a retry has just put a job back to waiting with attempts 0 while the
\* other job of the queue is failed with its attempts
C20_Witness ==
  /\ last.op = "retryJob" /\ last.val = TRUE
  /\ jobs[last.id].status = "waiting" /\ jobs[last.id].attempts = 0
  /\ \E i \in DOMAIN jobs :
       /\ i # last.id /\ jobs[i].queue_name = last.queue
       /\ jobs[i].status = "failed" /\ jobs[i].attempts > 0

\* C12: a handler that throws or rejects never stops the Worker: the step
\* that handles the failure leaves the Worker's process alive, isRunning true
\* and the poll timer armed exactly as they were, and whenever a failed
\* execution leaves a waiting job in the Worker's queue a later poll tick
\* claims a job and invokes the handler, unless the process dies first.
C12_FailureNeverStopsWorker ==
  /\ [][last'.op = "rejects" =>
          /\ alive' = alive /\ isRunning' = isRunning
          /\ pollInterval' = pollInterval /\ dbClosed' = dbClosed
       ]_vars
  /\ [](last.op = "rejects" => isRunning[last.w] /\ pollInterval[last.w])
  /\ ((last.op = "rejects" /\ RowsOf(jobs, WorkerQueue["w1"], "waiting") # {})
        ~> (last.op = "invoke" \/ ~alive["w1"]))

\* the handler has been invoked on a job that failed before, by a Worker
\* that is running with its timer armed
C12_Witness ==
  /\ last.op = "invoke" /\ last.job.attempts >= 1
  /\ isRunning[last.w] /\ pollInterval[last.w]

\* a step of a cleanupOldJobs call, and the call it belongs to
CleanupStep == last'.op \in {"cleanupCall", "cleanupSelect", "cleanupDelete", "cleanupOldJobs"}
CallOf == IF cl.pc = "idle" THEN cl' ELSE cl

\* C13: no step of a cleanupOldJobs call made with dryRun=true deletes or
\* modifies a row, whatever the status, retention and batchSize of the call:
\* each step leaves the job table as it found it.
C13_DryRunKeepsTable ==
  [][(CleanupStep /\ CallOf.dryRun) => jobs' = jobs]_vars

\* a dry run is about to return a count of at least one and the rows it counted
\* are still in the table
C13_Witness ==
  /\ cl.pc = "done" /\ cl.dryRun /\ cl.total >= 1
  /\ Cardinality(MatchingRows(jobs, cl)) >= cl.total

\* C14: a cleanupOldJobs call with dryRun=false deletes only rows of its
\* queue whose status is the given status and whose created_at is earlier
\* than now minus olderThanHours, and it leaves its loop only when no such
\* row is left. Time is counted in hours: a row created in the hour of the
\* cutoff may be earlier than the cutoff, a row created in a later hour is
\* not.
C14_DeletesIffOlderThanCutoff ==
  [][(CleanupStep /\ ~CallOf.dryRun) =>
       /\ \A id \in DOMAIN jobs \ DOMAIN jobs' :
            /\ jobs[id].queue_name = cl.queue
            /\ jobs[id].status = cl.status
            /\ jobs[id].created_at <= cl.cutoff
       /\ \A id \in DOMAIN jobs \cap DOMAIN jobs' : jobs'[id] = jobs[id]
       /\ (last'.op = "cleanupSelect" /\ cl'.pc = "done") =>
            ~ \E id \in DOMAIN jobs :
                /\ jobs[id].queue_name = cl.queue
                /\ jobs[id].status = cl.status
                /\ jobs[id].created_at < cl.cutoff
    ]_vars

\* C15: cleanupOldJobs terminates: every pass of its loop after which the
\* loop goes on leaves fewer matching rows than it found, so a call makes at
\* most as many passes as there are matching rows, for every batchSize >= 1
\* and both values of dryRun.
C15_EveryPassMakesProgress ==
  [][(last'.op = "cleanupDelete" /\ cl'.pc = "select") =>
       Cardinality(MatchingRows(jobs', cl)) < Cardinality(MatchingRows(jobs, cl))
    ]_vars

\* C16: no step of a cleanupOldJobs call on one queue deletes or changes a
\* row of another queue; the per-status counts of every other queue are the
\* same after the step as before it.
C16_OtherQueuesUntouched ==
  [][CleanupStep =>
       /\ \A id \in DOMAIN jobs :
            jobs[id].queue_name # CallOf.queue =>
              id \in DOMAIN jobs' /\ jobs'[id] = jobs[id]
       /\ \A q \in QueueNames \ {CallOf.queue} : GetStats(jobs', q) = GetStats(jobs, q)
    ]_vars

\* a call is about to return after deleting a row of its queue while a row of the other queue
\* with the same status and a created_at that matches the cutoff is kept
C16_Witness ==
  /\ cl.pc = "done" /\ ~cl.dryRun /\ cl.total >= 1
  /\ \E id \in DOMAIN jobs :
       /\ jobs[id].queue_name # cl.queue
       /\ jobs[id].status = cl.status
       /\ TextLess(SqliteDatetime(jobs[id].created_at), ToISOString(cl.cutoff))

\* the runs of the CleanupService in progress
RunsInProgress == IF svc.pc = "none" THEN 0 ELSE svc.active
ServiceRunning == IF svc.pc = "none" THEN FALSE ELSE svc.run.pc = "loop"

\* C17: at no time are two runs of the CleanupService in progress together,
\* whichever of the recurring timer, the initial timer and manual calls
\* trigger them; a trigger that arrives while a run is in progress is
\* rejected, deletes nothing and leaves the run in progress as it is.
C17_SingleFlight ==
  /\ [](RunsInProgress <= 1)
  /\ [][(last'.op \in {"trigger", "cleanupResult"} /\ RunsInProgress >= 1
          /\ svc'.active >= svc.active) =>
          /\ last'.op = "trigger" /\ last'.rejected
          /\ jobs' = jobs /\ cl' = cl
          /\ svc'.run = svc.run /\ svc'.active = svc.active
          /\ svc'.isRunning
       ]_vars

\* a trigger has just been rejected while the run in progress is in the
\* middle of a cleanupOldJobs call
C17_Witness ==
  /\ last.op = "trigger" /\ last.rejected
  /\ RunsInProgress = 1
  /\ cl.pc \in {"select", "delete"} /\ cl.caller = "service"

\* C18: a failure while purging one queue does not stop the run: the step
\* that handles it adds one message for that queue and leaves the queues
\* still to do as they were, and a run that reaches the end of its loop
\* returns a result with success=true in which every known queue either
\* was purged for completed and for failed or has exactly one message in
\* errors.
C18_QueueFailureIsContained ==
  /\ [][last'.op = "queueFails" =>
          /\ svc'.run.pc = "loop" /\ svc'.isRunning
          /\ svc'.run.todo = svc.run.todo
          /\ svc'.run.errors = Append(svc.run.errors, last'.queue)
          /\ svc'.run.purged = svc.run.purged
       ]_vars
  /\ [][(last'.op = "cleanupResult" /\ ServiceRunning) =>
          LET r == last'.result
              Messages(q) == {i \in 1..Len(r.errors) : r.errors[i] = q}
          IN /\ r.success
             /\ \A i \in 1..Len(r.errors) : r.errors[i] \in last'.queueNames
             /\ \A q \in last'.queueNames :
                  \/ /\ Messages(q) = {}
                     /\ <<q, "completed">> \in last'.purged
                     /\ <<q, "failed">> \in last'.purged
                  \/ Cardinality(Messages(q)) = 1
       ]_vars

\* a run has returned with one message for the queue that failed and with
\* rows purged from the other queue
C18_Witness ==
  /\ last.op = "cleanupResult" /\ last.result.success
  /\ Len(last.result.errors) = 1
  /\ \E q \in last.result.stats.queuesCleaned : q # last.result.errors[1]

\* C19: manualCleanup(dryRun) runs with the flag it is given, whatever the
\* configured dryRun is, and with the configured dryRun when the argument is
\* omitted; every cleanupOldJobs call of a run gets the run's flag, the
\* result's dryRun is that flag, and a run whose flag is true deletes no row.
C19_ManualCleanupFlag ==
  /\ [][(last'.op = "trigger" /\ ~last'.rejected /\ last'.kind = "manual") =>
          svc'.run.dryRun = IF last'.given = Undefined THEN svc.options.dryRun
                            ELSE last'.given = {TRUE}
       ]_vars
  /\ [][(last'.op = "cleanupResult" /\ ~ServiceRunning /\ last'.kind = "manual") =>
          last'.result.dryRun = IF last'.given = Undefined THEN svc.options.dryRun
                                ELSE last'.given = {TRUE}
       ]_vars
  /\ [][ServiceRunning =>
          /\ (last'.op = "cleanupResult" => last'.result.dryRun = svc.run.dryRun)
          /\ (cl'.pc # "idle" => cl'.dryRun = svc.run.dryRun)
          /\ (svc.run.dryRun => jobs' = jobs)
       ]_vars

\* a service configured with dryRun=true has returned from a run with
\* dryRun=false that deleted rows: manualCleanup(false)
C19_Witness ==
  /\ last.op = "cleanupResult" /\ last.result.success
  /\ svc.options.dryRun /\ ~last.result.dryRun
  /\ last.result.stats.totalJobsCleaned >= 1

\* C21: retryJob(id) and deleteSpecificJob(id) called on a queue that holds
\* no job with that id (never assigned, already deleted, or the id of a job
\* of another queue) return false and leave the whole store unchanged.
C21_UnknownJobIsRefused ==
  [][(/\ last'.op \in {"retryJob", "deleteSpecificJob"}
      /\ ~(last'.id \in DOMAIN jobs /\ jobs[last'.id].queue_name = last'.queue)) =>
       last'.val = FALSE /\ jobs' = jobs /\ seq' = seq
    ]_vars

\* deleteSpecificJob has just refused the id of a job of the other queue,
\* and retryJob would be refused for an id that was deleted before
C21_Witness ==
  /\ last.op = "deleteSpecificJob" /\ last.val = FALSE
  /\ last.id \in DOMAIN jobs /\ jobs[last.id].queue_name # last.queue
  /\ \E id \in 1..seq : id \notin DOMAIN jobs

\* C28: after enqueue a job's attempts goes back to 0 only through an
\* operator retry of a job that is completed or failed at that moment; a
\* retry of a job that is waiting or processing changes neither its status
\* nor its attempts.
C28_RetryOnlyResetsTerminalJobs ==
  /\ [][\A id \in DOMAIN jobs \cap DOMAIN jobs' :
          (jobs[id].attempts > 0 /\ jobs'[id].attempts = 0) =>
            /\ last'.op = "retryJob" /\ last'.id = id
            /\ jobs[id].status \in {"completed", "failed"}
       ]_vars
  /\ [][(/\ last'.op = "retryJob" /\ last'.id \in DOMAIN jobs
          /\ jobs[last'.id].queue_name = last'.queue
          /\ jobs[last'.id].status \in {"waiting", "processing"}) =>
          jobs'[last'.id] = jobs[last'.id]
       ]_vars

\* C29: updateJobStatus called with an id that is not in the store raises an
\* error to its caller and changes nothing.
C29_UpdateOfMissingJobFails ==
  [][(last'.op = "updateJobStatus" /\ last'.id \notin DOMAIN jobs) =>
       last'.threw /\ jobs' = jobs
    ]_vars

\* C22: stop() and close() leave the Worker with isRunning false and its
\* poll timer cleared, and neither cancels nor awaits the handlers already
\* dispatched: they stay in flight and settle later. A Worker claims a job
\* and invokes the handler only while it is running, so none is claimed
\* after stop() or close(); stop() on a Worker that is not running changes
\* nothing.
C22_StopEndsPolling ==
  /\ [][last'.op \in {"stop", "close"} =>
          /\ ~isRunning'[last'.w] /\ ~pollInterval'[last'.w]
          /\ inflight' = inflight /\ selected' = selected
          /\ jobs' = jobs /\ alive' = alive
       ]_vars
  /\ [][(last'.op = "stop" /\ ~isRunning[last'.w]) =>
          UNCHANGED <<jobs, seq, now, workerVars, histVars, cleanupVars>>
       ]_vars
  /\ [][\A w \in Workers :
          (\/ selected'[w] # NoJob /\ selected'[w] # selected[w]
           \/ last'.op = "invoke" /\ last'.w = w) =>
            isRunning[w] /\ pollInterval[w]
       ]_vars
  /\ [](\A w \in Workers : isRunning[w] = pollInterval[w])

\* a handler dispatched before stop() has settled after it, and a waiting
\* job of the queue is left unclaimed by the stopped Worker
C22_Witness ==
  /\ last.op \in {"resolves", "rejects"}
  /\ alive[last.w] /\ ~isRunning[last.w] /\ ~dbClosed[last.w]
  /\ RowsOf(jobs, WorkerQueue[last.w], "waiting") # {}

\* C24: a Worker never has more than one handler execution in flight.
C24_OneHandlerInFlight ==
  \A w \in Workers : BagCardinality(inflight[w]) <= 1

\* C25: the select of a waiting job and its update to processing are
\* separate steps: the poll tick's select changes no row, so the job it
\* returns is still waiting for the select of another Worker, and the
\* Worker then marks and executes the job it selected whatever the row's
\* status has become.
C25_SelectThenMark ==
  /\ [][\A w \in Workers :
          (selected[w] = NoJob /\ selected'[w] # NoJob) =>
            /\ jobs' = jobs
            /\ jobs[selected'[w].id].status = "waiting"
       ]_vars
  /\ [][last'.op = "invoke" =>
          /\ last'.job = selected[last'.w]
          /\ last'.job.id \in DOMAIN jobs' => jobs'[last'.job.id].status = "processing"
          /\ invoked'[last'.job.id] = invoked[last'.job.id] + 1
       ]_vars

\* both Workers have the handler of the same job in flight, each from a
\* select that saw the job waiting with attempts 0: the second select came
\* before the first Worker marked the job
C25_Witness ==
  \E id \in DOMAIN jobs :
    /\ invoked[id] = 2
    /\ \A w \in Workers : BagIn([id |-> id, attempts |-> 0], inflight[w])

\* C26: whenever the Worker claims a job, no waiting job of the queue has a
\* strictly earlier created_at, and no job of the queue that was put back to
\* waiting after a failed execution was enqueued before the claimed job.
C26_ClaimsInCreationOrder ==
  [][last'.op = "invoke" =>
       LET j == last'.job.id IN
         \A k \in RowsOf(jobs, jobs[j].queue_name, "waiting") \ {j} :
           /\ jobs[k].created_at >= jobs[j].created_at
           /\ jobs[k].attempts >= 1 => k > j
    ]_vars

\* a step of a Worker: a select, a handler invocation or a handler's settling
WorkerStep ==
  \/ last'.op \in {"invoke", "resolves", "rejects"}
  \/ selected' # selected

\* C27: once a job is failed or completed, no step of any Worker changes its
\* status or attempts, invokes its handler or removes it.
C27_TerminalJobsAreStable ==
  [][WorkerStep =>
       \A id \in DOMAIN jobs :
         jobs[id].status \in {"failed", "completed"} =>
           /\ id \in DOMAIN jobs' /\ jobs'[id] = jobs[id]
           /\ invoked'[id] = invoked[id]
    ]_vars

\* C30: a Worker's processing of a job (marking it, and recording the
\* success or the failure of its execution) changes or removes no row but
\* that job's and adds none.
C30_OnlyTheJobsRow ==
  [][last'.op \in {"invoke", "resolves", "rejects"} =>
       /\ DOMAIN jobs' \subseteq DOMAIN jobs
       /\ \A id \in DOMAIN jobs \ {last'.job.id} :
            id \in DOMAIN jobs' /\ jobs'[id] = jobs[id]
    ]_vars

\* a failed execution has been recorded while another job of the same queue
\* is processing and a job of the other queue is waiting
C30_Witness ==
  /\ last.op = "rejects"
  /\ last.job.id \in DOMAIN jobs /\ jobs[last.job.id].attempts >= 1
  /\ RowsOf(jobs, WorkerQueue[last.w], "processing") \ {last.job.id} # {}

\* C23: a job row leaves the store only through a Worker that records the
\* successful execution of that job, through a cleanup step that finds the
\* row completed or failed and created no later than the hour of the
\* retention cutoff, or through an operator's deleteSpecificJob of that job.
C23_RowsLeaveOnlyThreeWays ==
  [][\A id \in DOMAIN jobs \ DOMAIN jobs' :
       \/ last'.op = "resolves" /\ last'.job.id = id
       \/ /\ last'.op = "cleanupDelete"
          /\ jobs[id].status \in {"completed", "failed"}
          /\ jobs[id].created_at <= cl.cutoff
       \/ last'.op = "deleteSpecificJob" /\ last'.id = id
    ]_vars

\* C32: a cleanupOldJobs call with dryRun=false made right after a call with
\* dryRun=false for the same queue, status and cutoff has returned, with no
\* operation in between, deletes nothing in any of its steps and returns 0.
C32_SecondPurgeDeletesNothing ==
  [][(CleanupStep /\ cl.pc # "idle" /\ ~cl.dryRun /\ cl.previous # NoPrevious) =>
       /\ jobs' = jobs
       /\ (last'.op = "cleanupOldJobs" => last'.val = 0)
    ]_vars

\* the second of two equal purges is about to return 0 after the first one
\* deleted rows
C32_Witness ==
  /\ cl.pc = "done" /\ ~cl.dryRun
  /\ cl.previous >= 1 /\ cl.total = 0

\* C33: the count of a cleanupOldJobs call never exceeds the number of rows
\* of the queue that matched status and cutoff when the call was made, each
\* matching row being counted once, and it is that number when the call
\* returns; with dryRun=false every pass counts the rows it deletes.
C33_CountIsMatchingRows ==
  /\ [](cl.pc # "idle" =>
          /\ cl.total <= cl.matched
          /\ (cl.pc = "done" => cl.total = cl.matched))
  /\ [][(last'.op = "cleanupDelete" /\ ~cl.dryRun) =>
          cl'.total - cl.total = Cardinality(DOMAIN jobs \ DOMAIN jobs')
       ]_vars

\* the rows counted by the cleanupOldJobs calls of a run, over the queues of S
RECURSIVE CountedIn(_, _)
CountedIn(counted, S) ==
  IF S = {} THEN 0
  ELSE LET q == CHOOSE x \in S : TRUE IN counted[q] + CountedIn(counted, S \ {q})

\* the history of the run that the step ends
CountedByRun == IF ServiceRunning THEN svc.run.counted ELSE [q \in QueueNames |-> 0]

\* C31: the step that ends a cleanup run, whatever triggered it, leaves in
\* lastCleanupStats the statistics of that run, in which totalJobsCleaned =
\* completedJobsCleaned + failedJobsCleaned = the sum of the counts of the
\* run's cleanupOldJobs calls, and queuesCleaned is the set of the queues for
\* which those calls counted more than 0.
C31_StatsOfLastRun ==
  [][last'.op = "cleanupResult" =>
       LET st == last'.result.stats IN
       /\ svc'.lastCleanupStats = {st}
       /\ st.totalJobsCleaned = st.completedJobsCleaned + st.failedJobsCleaned
       /\ st.totalJobsCleaned = CountedIn(CountedByRun, QueueNames)
       /\ st.queuesCleaned = {q \in QueueNames : CountedByRun[q] > 0}
    ]_vars

\* C38: the running flag is set exactly while a run is in progress: every
\* step that ends a run, with or without per-queue errors or with the scan
\* of the queue names failing, leaves isCleanupRunning() false, and a
\* trigger is rejected only while a run is in progress.
C38_FlagOnlyWhileRunning ==
  /\ [](svc.pc # "none" => (CleanupIsRunning(svc) <=> svc.run.pc = "loop"))
  /\ [][last'.op = "cleanupResult" => ~CleanupIsRunning(svc')]_vars
  /\ [][(last'.op = "trigger" /\ last'.rejected) => ServiceRunning]_vars

\* a trigger has just been accepted and started a run on a service that has
\* ended a run before
C38_Witness ==
  /\ last.op = "trigger" /\ ~last.rejected
  /\ svc.lastCleanupStats # Null
  /\ svc.isRunning /\ svc.run.pc = "loop"

\* The process of the admin plugin: onStart constructs and starts the
\* CleanupService, onStop stops it, the timers fire and POST /cleanup/trigger
\* is served; producers add jobs and Workers complete them between runs.
NextPlugin ==
  \/ \E q \in QueueNames : ServiceIdle /\ Add(q)
  \/ \E id \in JobIds : ServiceIdle /\ UpdateJobStatusCall(id, "completed", NoAttempts)
  \/ \E dry \in BOOLEAN : ServiceConstruct(dry)
  \/ ServiceStart
  \/ ServiceStop
  \/ \E scanThrows \in BOOLEAN : IntervalTrigger(scanThrows)
  \/ \E scanThrows \in BOOLEAN : InitialTrigger(scanThrows)
  \/ \E query \in {Undefined, Supplied("true"), Supplied("false")}, scanThrows \in BOOLEAN :
       TriggerEndpoint(query, scanThrows)
  \/ ServiceNextQueue
  \/ CleanupSelect
  \/ CleanupDelete
  \/ ServiceCollect
  \/ ServiceQueueFails
  \/ ServiceRunEnds

SpecPlugin == Init /\ [][NextPlugin]_vars

\* the step starts a run from a timer: the run begins, or it ends at once
\* because the scan of the queue names fails
TimerRunStarts ==
  /\ \/ last'.op = "trigger" /\ ~last'.rejected
     \/ last'.op = "cleanupResult" /\ ~ServiceRunning
  /\ last'.kind \in {"interval", "initial"}

\* C36: a run is started by a timer only on a service that is started:
\* between the return of stop() and the next start() neither the recurring
\* timer nor the timer of the first run starts a run.
C36_NoTimerRunAfterStop ==
  [][TimerRunStarts => svc.intervalId]_vars

\* C37: no step of a run that POST /cleanup/trigger started without a dryRun
\* parameter on a service configured with dryRun=true deletes or changes a
\* row.
C37_EndpointKeepsConfiguredDryRun ==
  [][(ServiceRunning /\ svc.options.dryRun /\ svc.run.request = Undefined) =>
       jobs' = jobs
    ]_vars

\* C35: every step in which a dispatched handler settles records the outcome
\* in the store: after a success the job's row is gone, after a failure the
\* row is waiting or failed with one more attempt than the Worker read, also
\* when close() was called on the Worker while the handler was running.
C35_SettledHandlerIsRecorded ==
  [][/\ last'.op = "resolves" => last'.job.id \notin DOMAIN jobs'
     /\ (last'.op = "rejects" /\ last'.job.id \in DOMAIN jobs) =>
          /\ last'.job.id \in DOMAIN jobs'
          /\ jobs'[last'.job.id].status \in {"waiting", "failed"}
          /\ jobs'[last'.job.id].attempts = last'.job.attempts + 1
    ]_vars

\* one Worker that keeps running: the poll timer keeps firing, a selected
\* job is marked and dispatched in the same tick, and every handler settles
SpecRunFair ==
  /\ Init /\ [][NextRun]_vars
  /\ WF_vars(WorkerSelect("w1"))
  /\ WF_vars(WorkerMark("w1"))
  /\ WF_vars(\E job \in BagToSet(inflight["w1"]) :
               HandlerResolves("w1", job) \/ HandlerRejects("w1", job))

\* C34: with one running Worker, fair poll ticks and handlers that settle,
\* every job enqueued on the Worker's queue is eventually removed or failed,
\* and a failed job has failed MAX_ATTEMPTS executions.
C34_EveryJobReachesAnOutcome ==
  /\ \A id \in JobIds :
       []((id \in DOMAIN jobs /\ jobs[id].queue_name = WorkerQueue["w1"]) =>
            <>(id \notin DOMAIN jobs \/ jobs[id].status = "failed"))
  /\ [](\A id \in DOMAIN jobs :
          jobs[id].status = "failed" =>
            jobs[id].attempts = MAX_ATTEMPTS /\ invoked[id] = MAX_ATTEMPTS)

\* one job has been removed after a successful execution and another one is
\* failed after its third failed execution
C34_Witness ==
  /\ \E id \in resolved : id \notin DOMAIN jobs
  /\ \E id \in DOMAIN jobs :
       jobs[id].status = "failed" /\ invoked[id] = MAX_ATTEMPTS

\* one Worker that keeps running and an operator who deletes jobs through
\* the admin API
NextOperator ==
  \/ NextRun
  \/ \E q \in QueueNames, id \in JobIds : DeleteSpecificJob(q, id)

SpecOperator == Init /\ [][NextOperator]_vars

\* C39: an id that has been assigned and whose row is gone has no row after
\* any step, and the steps of a Worker for a job whose row is gone (marking
\* it, a success or a failure of its handler) leave every row as it was.
C39_RemovedRowsStayRemoved ==
  /\ [][\A id \in 1..seq : id \notin DOMAIN jobs => id \notin DOMAIN jobs']_vars
  /\ [][(/\ last'.op \in {"invoke", "resolves", "rejects"}
         /\ last'.job.id \notin DOMAIN jobs) => jobs' = jobs
       ]_vars

\* the handler of a job has just failed after an operator deleted the job,
\* and the store holds another job
C39_Witness ==
  /\ last.op = "rejects"
  /\ last.job.id \notin DOMAIN jobs /\ last.job.id \notin resolved
  /\ DOMAIN jobs # {}

====
